---- MODULE Spec2Model ----
(***************************************************************************)
(* Model of postgres_db_s3_backup.py: main() dumps a database through      *)
(* "pg_dump | gzip > file", verifies the file, creates the bucket when the *)
(* client's cached bucket list lacks it, uploads the file under its base   *)
(* name and removes the local file.  Several invocations of the script     *)
(* share the clock, the local filesystem and the storage service; every    *)
(* system call of one invocation is one step.                              *)
(***************************************************************************)
EXTENDS Integers, Sequences, FiniteSets, TLC

VARIABLES clock, dirKind, fkind, fdata, buckets, objects,
          pc, output_file, output_filename, registry, err, log

vars == <<clock, dirKind, fkind, fdata, buckets, objects,
          pc, output_file, output_filename, registry, err, log>>

\* ---------------------------------------------------------------- bounds
NumRuns == 2
MaxTick == 2
TicksPerSecond == 2
MaxCalls == 3

Runs == 1..NumRuns

\* ------------------------------------------------------- configuration
OutputDir == "/tmp/b"
Prefix == "nightly"
DataBucket == "orders-backups"
BucketNames == {DataBucket, "other"}

\* ------------------------------------------------------ pure functions
\* the second an instant of the clock falls in
SecondOf(t) == t \div TicksPerSecond

\* variant: a timestamp at minute resolution
generate_timestamp_minutes(t) == <<SecondOf(t) \div 60, 0, "UTC">>

\* "{}{:02d}{:02d}_{:02d}{:02d}{:02d}_{}": the fields of utcnow() down to the
\* second (here minute and second), then 'UTC'; the sub-second part is dropped
generate_timestamp(t) == <<SecondOf(t) \div 60, SecondOf(t) % 60, "UTC">>

\* "{}{}{}.{}.sql.gz".format(output_dir, os.sep, prefix, timestamp)
make_output_file(dir, prefix, stamp) ==
    [dir |-> dir, base |-> <<prefix, stamp, "sql.gz">>]

basename(p) == p.base
dirname(p) == p.dir

generate_key(bucket, base_filename) == <<bucket, base_filename>>

\* variant: the key the commented-out __generate_key call would give
upload_key_prefixed(bucket, local_filename) ==
    generate_key(bucket, basename(local_filename))

\* upload: key = base_filename
upload_key(bucket, local_filename) == basename(local_filename)

Paths == { make_output_file(OutputDir, Prefix, generate_timestamp(t)) : t \in 0..MaxTick }
NoFile == [dir |-> "", base |-> <<>>]
IniFile == [dir |-> ".", base |-> <<"config.ini">>]
NoErr == [type |-> "none"]

\* check_state(expression, message, *args) raises Exception(message.format(*args))
check_state(expression, message, arg) ==
    IF expression THEN NoErr
    ELSE [type |-> "Exception", msg |-> message, arg |-> arg]

\* check_file: exists, then isfile
check_file(kind, filename) ==
    IF check_state(kind # "absent", "does not exist", filename) # NoErr
    THEN check_state(kind # "absent", "does not exist", filename)
    ELSE check_state(kind = "file", "is not a file", filename)

\* sh -c "pg_dump ... | gzip > file": the status of a pipeline is the status
\* of its last command
pipeline_status(dump_rc, gzip_rc) == gzip_rc

\* run_command: check=True / check_returncode, then the stderr check
run_command_error(dump_rc, gzip_rc, stderr) ==
    IF pipeline_status(dump_rc, gzip_rc) # 0
    THEN [type |-> "CalledProcessError"]
    ELSE check_state(stderr = 0, "The following error occurred", stderr)

\* variants: a lookup that never finds the name, one that finds any name in a
\* non-empty list
is_bucket_exists_never(bucketsCache, name) == FALSE
is_bucket_exists_any(bucketsCache, name) == bucketsCache # {}

is_bucket_exists(bucketsCache, name) == name \in bucketsCache

Append1(r, e) == [log EXCEPT ![r] = Append(@, e)]
Fail(r, e) == /\ pc' = [pc EXCEPT ![r] = "failed"]
              /\ err' = [err EXCEPT ![r] = e]
Goto(r, to) == /\ pc' = [pc EXCEPT ![r] = to]
               /\ err' = err

\* ------------------------------------------------------------- states
Init ==
    /\ clock = 0
    /\ dirKind \in {"absent", "dir", "file"}
    /\ fkind = [p \in Paths |-> "absent"]
    /\ fdata = [p \in Paths |-> 0]
    /\ buckets \in SUBSET {DataBucket}
    /\ objects = [k \in {} |-> 0]
    /\ pc = [r \in Runs |-> "start"]
    /\ output_file = [r \in Runs |-> NoFile]
    /\ output_filename = [r \in Runs |-> NoFile]
    /\ registry = [r \in Runs |-> {}]
    /\ err = [r \in Runs |-> NoErr]
    /\ log = [r \in Runs |-> <<>>]

\* time passes; the clock is read only by __generate_timestamp, so ticks after
\* the last invocation has read it are not observable
Tick ==
    /\ clock < MaxTick
    /\ \E r \in Runs : pc[r] \in {"start", "prepare"}
    /\ clock' = clock + 1
    /\ UNCHANGED <<dirKind, fkind, fdata, buckets, objects, pc, output_file,
                   output_filename, registry, err, log>>

\* main, up to the construction of DB_Dump: argument count, check_file of the
\* ini file, the eleven cfg[...] lookups.  Invocations are numbered in the
\* order in which they start.
MainConfig(r) ==
    /\ pc[r] = "start"
    /\ \A q \in Runs : q < r => pc[q] # "start"
    /\ \E argc \in 1..3, iniKind \in {"absent", "dir", "file"}, keysOk \in BOOLEAN :
         IF argc < 2 THEN Fail(r, [type |-> "Exception", msg |-> "Missing the input config ini filename", arg |-> argc])
         ELSE IF argc > 2 THEN Fail(r, [type |-> "Exception", msg |-> "Too many arguments", arg |-> argc])
         ELSE IF check_file(iniKind, IniFile) # NoErr THEN Fail(r, check_file(iniKind, IniFile))
         ELSE IF ~keysOk THEN Fail(r, [type |-> "KeyError"])
         ELSE Goto(r, "prepare")
    /\ UNCHANGED <<clock, dirKind, fkind, fdata, buckets, objects, output_file,
                   output_filename, registry, log>>

\* dump_db: the generated output file, then _prepare_output_file up to makedirs
PrepareOutputFile(r) ==
    /\ pc[r] = "prepare"
    /\ output_file' = [output_file EXCEPT ![r] =
           make_output_file(OutputDir, Prefix, generate_timestamp(clock))]
    /\ log' = Append1(r, [op |-> "utcnow", second |-> SecondOf(clock)])
    /\ IF dirKind = "absent" THEN Goto(r, "makedirs")
       ELSE IF dirKind # "dir"
            THEN Fail(r, [type |-> "Exception", msg |-> "A non-directory already has the name", arg |-> OutputDir])
            ELSE Goto(r, "check_connection")
    /\ UNCHANGED <<clock, dirKind, fkind, fdata, buckets, objects,
                   output_filename, registry>>

\* os.makedirs(parent_dir): raises when the directory appeared meanwhile
MakeDirs(r) ==
    /\ pc[r] = "makedirs"
    /\ IF dirKind = "absent"
       THEN /\ dirKind' = "dir"
            /\ log' = Append1(r, [op |-> "makedirs", path |-> dirname(output_file[r])])
            /\ Goto(r, "check_connection")
       ELSE /\ UNCHANGED <<dirKind, log>>
            /\ Fail(r, [type |-> "FileExistsError"])
    /\ UNCHANGED <<clock, fkind, fdata, buckets, objects, output_file,
                   output_filename, registry>>

\* variant: the except clause logs the failure and does not re-raise
CheckConnection_Swallow(r) ==
    /\ pc[r] = "check_connection"
    /\ \E ok \in BOOLEAN :
         /\ log' = Append1(r, [op |-> "connect", ok |-> ok])
         /\ Goto(r, "run_command")
    /\ UNCHANGED <<clock, dirKind, fkind, fdata, buckets, objects, output_file,
                   output_filename, registry>>

\* _check_connection: psycopg2.connect, close; re-raises on failure
CheckConnection(r) ==
    /\ pc[r] = "check_connection"
    /\ \E ok \in BOOLEAN :
         /\ log' = Append1(r, [op |-> "connect", ok |-> ok])
         /\ IF ok THEN Goto(r, "run_command")
            ELSE Fail(r, [type |-> "OperationalError"])
    /\ UNCHANGED <<clock, dirKind, fkind, fdata, buckets, objects, output_file,
                   output_filename, registry>>

\* run_command(dump_cmd | compress_cmd): the shell opens the redirection
\* target before the pipeline runs, so the file exists whatever pg_dump does
RunCommand(r) ==
    /\ pc[r] = "run_command"
    /\ \E dump_rc \in {0, 1}, gzip_rc \in {0, 1}, stderr \in {0, 1} :
         /\ fkind' = [fkind EXCEPT ![output_file[r]] = "file"]
         /\ fdata' = [fdata EXCEPT ![output_file[r]] = r]
         /\ log' = Append1(r, [op |-> "run_command", out |-> output_file[r],
                               dump_rc |-> dump_rc, gzip_rc |-> gzip_rc,
                               stderr |-> stderr])
         /\ IF run_command_error(dump_rc, gzip_rc, stderr) # NoErr
            THEN Fail(r, run_command_error(dump_rc, gzip_rc, stderr))
            ELSE Goto(r, "check_file")
    /\ UNCHANGED <<clock, dirKind, buckets, objects, output_file,
                   output_filename, registry>>

\* variant: dump_db returns the path without check_file
CheckDumpFile_NoCheck(r) ==
    /\ pc[r] = "check_file"
    /\ log' = Append1(r, [op |-> "check_file", path |-> output_file[r],
                          ok |-> check_file(fkind[output_file[r]], output_file[r]) = NoErr])
    /\ output_filename' = [output_filename EXCEPT ![r] = output_file[r]]
    /\ Goto(r, "s3client")
    /\ UNCHANGED <<clock, dirKind, fkind, fdata, buckets, objects, output_file,
                   registry>>

\* dump_db: check_file(output_file); return output_file
CheckDumpFile(r) ==
    /\ pc[r] = "check_file"
    /\ log' = Append1(r, [op |-> "check_file", path |-> output_file[r],
                          ok |-> check_file(fkind[output_file[r]], output_file[r]) = NoErr])
    /\ IF check_file(fkind[output_file[r]], output_file[r]) # NoErr
       THEN /\ Fail(r, check_file(fkind[output_file[r]], output_file[r]))
            /\ UNCHANGED output_filename
       ELSE /\ output_filename' = [output_filename EXCEPT ![r] = output_file[r]]
            /\ Goto(r, "s3client")
    /\ UNCHANGED <<clock, dirKind, fkind, fdata, buckets, objects, output_file,
                   registry>>

\* S3Client.__init__: __connect, then __get_bucket_names caches list_buckets
S3ClientInit(r, from, to) ==
    /\ pc[r] = from
    /\ \E ok \in BOOLEAN :
         /\ log' = Append1(r, [op |-> "list_buckets", ok |-> ok,
                               after |-> \E q \in Runs : pc[q] = "done"])
         /\ IF ok
            THEN /\ registry' = [registry EXCEPT ![r] = buckets]
                 /\ Goto(r, to)
            ELSE /\ UNCHANGED registry
                 /\ Fail(r, [type |-> "EndpointConnectionError"])
    /\ UNCHANGED <<clock, dirKind, fkind, fdata, buckets, objects, output_file,
                   output_filename>>

\* setup_bucket(name): create_bucket unless the cached list has the name.
\* The service may refuse the request, and for a bucket the caller already
\* owns it answers either with an error or with success.
SetupBucket(r, name, from, to) ==
    /\ pc[r] = from
    /\ IF is_bucket_exists(registry[r], name)
       THEN /\ log' = Append1(r, [op |-> "setup_bucket", name |-> name,
                                  existed |-> name \in buckets,
                                  create |-> FALSE, raised |-> FALSE])
            /\ UNCHANGED buckets
            /\ Goto(r, to)
       ELSE \E ok \in BOOLEAN :
            /\ log' = Append1(r, [op |-> "setup_bucket", name |-> name,
                                  existed |-> name \in buckets,
                                  create |-> TRUE, raised |-> ~ok])
            /\ IF ok
               THEN /\ buckets' = buckets \cup {name}
                    /\ Goto(r, to)
               ELSE /\ UNCHANGED buckets
                    /\ Fail(r, [type |-> "ClientError"])
    /\ UNCHANGED <<clock, dirKind, fkind, fdata, objects, output_file,
                   output_filename, registry>>

\* variant: main never calls client.setup()
S3Client_SkipSetup(r) == S3ClientInit(r, "s3client", "upload")

\* main: client = S3Client(...)
S3Client(r) == S3ClientInit(r, "s3client", "setup")

\* client.setup() -> setup_data_bucket -> setup_bucket(self.data_bucket)
Setup(r) == SetupBucket(r, DataBucket, "setup", "upload")

\* variant: upload without check_file
UploadCheck_NoCheck(r) ==
    /\ pc[r] = "upload"
    /\ log' = Append1(r, [op |-> "upload", file |-> output_filename[r],
                          isfile |-> fkind[output_filename[r]] = "file"])
    /\ Goto(r, "upload_file")
    /\ UNCHANGED <<clock, dirKind, fkind, fdata, buckets, objects, output_file,
                   output_filename, registry>>

\* upload: check_file(local_filename)
UploadCheck(r) ==
    /\ pc[r] = "upload"
    /\ log' = Append1(r, [op |-> "upload", file |-> output_filename[r],
                          isfile |-> fkind[output_filename[r]] = "file"])
    /\ IF check_file(fkind[output_filename[r]], output_filename[r]) # NoErr
       THEN Fail(r, check_file(fkind[output_filename[r]], output_filename[r]))
       ELSE Goto(r, "upload_file")
    /\ UNCHANGED <<clock, dirKind, fkind, fdata, buckets, objects, output_file,
                   output_filename, registry>>

\* upload: self.__client.upload_file(local_filename, self.data_bucket, key)
UploadFile(r) ==
    /\ pc[r] = "upload_file"
    /\ \E ok \in BOOLEAN :
         LET file == output_filename[r]
             key == upload_key(DataBucket, file)
             sent == ok /\ fkind[file] = "file" /\ DataBucket \in buckets
         IN /\ log' = Append1(r, [op |-> "upload_file", file |-> file,
                                  bucket |-> DataBucket, key |-> key,
                                  ok |-> sent])
            /\ IF sent
               THEN /\ objects' = (key :> fdata[file]) @@ objects
                    /\ Goto(r, "exists")
               ELSE /\ UNCHANGED objects
                    /\ Fail(r, [type |-> "S3UploadFailedError"])
    /\ UNCHANGED <<clock, dirKind, fkind, fdata, buckets, output_file,
                   output_filename, registry>>

\* main: if os.path.exists(output_filename)
Exists(r) ==
    /\ pc[r] = "exists"
    /\ IF fkind[output_filename[r]] # "absent"
       THEN Goto(r, "remove")
       ELSE Goto(r, "done")
    /\ UNCHANGED <<clock, dirKind, fkind, fdata, buckets, objects, output_file,
                   output_filename, registry, log>>

\* main: os.remove(output_filename)
Remove(r) ==
    /\ pc[r] = "remove"
    /\ IF fkind[output_filename[r]] = "file"
       THEN /\ fkind' = [fkind EXCEPT ![output_filename[r]] = "absent"]
            /\ fdata' = [fdata EXCEPT ![output_filename[r]] = 0]
            /\ log' = Append1(r, [op |-> "remove", path |-> output_filename[r]])
            /\ Goto(r, "done")
       ELSE /\ UNCHANGED <<fkind, fdata, log>>
            /\ Fail(r, [type |-> "FileNotFoundError"])
    /\ UNCHANGED <<clock, dirKind, buckets, objects, output_file,
                   output_filename, registry>>

Next ==
    \/ Tick
    \/ \E r \in Runs : MainConfig(r)
    \/ \E r \in Runs : PrepareOutputFile(r)
    \/ \E r \in Runs : MakeDirs(r)
    \/ \E r \in Runs : CheckConnection(r)
    \/ \E r \in Runs : RunCommand(r)
    \/ \E r \in Runs : CheckDumpFile(r)
    \/ \E r \in Runs : S3Client(r)
    \/ \E r \in Runs : Setup(r)
    \/ \E r \in Runs : UploadCheck(r)
    \/ \E r \in Runs : UploadFile(r)
    \/ \E r \in Runs : Exists(r)
    \/ \E r \in Runs : Remove(r)

Spec == Init /\ [][Next]_vars

TypeOK ==
    /\ clock \in 0..MaxTick
    /\ buckets \subseteq BucketNames
    /\ \A r \in Runs : registry[r] \subseteq buckets

\* ---------------------------------------------- the client used on its own
\* A caller constructs S3Client objects and calls setup_bucket on them any
\* number of times, with any bucket name.
InitClient ==
    /\ clock = 0
    /\ dirKind = "dir"
    /\ fkind = [p \in Paths |-> "absent"]
    /\ fdata = [p \in Paths |-> 0]
    /\ buckets \in SUBSET BucketNames
    /\ objects = [k \in {} |-> 0]
    /\ pc = [r \in Runs |-> "new"]
    /\ output_file = [r \in Runs |-> NoFile]
    /\ output_filename = [r \in Runs |-> NoFile]
    /\ registry = [r \in Runs |-> {}]
    /\ err = [r \in Runs |-> NoErr]
    /\ log = [r \in Runs |-> <<>>]

NewClient(r) == S3ClientInit(r, "new", "ready")

SetupCalls(r) == Cardinality({ i \in DOMAIN log[r] : log[r][i].op = "setup_bucket" })

RECURSIVE TotalSetupCalls(_)
TotalSetupCalls(n) == IF n = 0 THEN 0 ELSE SetupCalls(n) + TotalSetupCalls(n - 1)

CallSetupBucket(r) ==
    /\ TotalSetupCalls(NumRuns) < MaxCalls
    /\ \E name \in BucketNames : SetupBucket(r, name, "ready", "ready")

NextClient ==
    \/ \E r \in Runs : NewClient(r)
    \/ \E r \in Runs : CallSetupBucket(r)

SpecClient == InitClient /\ [][NextClient]_vars

\* ------------------------------------------------------------ histories
EventsOf(r, op) == { i \in DOMAIN log[r] : log[r][i].op = op }
Has(r, op) == EventsOf(r, op) # {}

StageOps == {"run_command", "check_file", "setup_bucket", "upload", "remove"}
Pipeline == <<"run_command", "check_file", "setup_bucket", "upload", "remove">>
IsStage(e) == e.op \in StageOps
Stages(r) == LET st == SelectSeq(log[r], IsStage)
             IN [i \in DOMAIN st |-> st[i].op]
IsPrefix(s, t) == Len(s) <= Len(t) /\ \A i \in DOMAIN s : s[i] = t[i]

StorageOps == {"list_buckets", "setup_bucket", "upload", "upload_file"}
NoStorageOp(r) == \A i \in DOMAIN log[r] : log[r][i].op \notin StorageOps

DumpFailed(e) == e.dump_rc # 0 \/ e.gzip_rc # 0 \/ e.stderr # 0

\* the moment invocation r returns from main without an error
Completes(r) == pc[r] # "done" /\ pc'[r] = "done"

\* the moment upload_file of invocation r returns without an error
Uploads(r) == pc[r] = "upload_file" /\ pc'[r] = "exists"

\* invocation r has put exactly one object, under the base name of the
\* artifact, in the configured bucket
PutOnce(lg, file) ==
    /\ Cardinality({ i \in DOMAIN lg : lg[i].op = "upload_file" }) = 1
    /\ \A i \in DOMAIN lg : lg[i].op = "upload_file" =>
          /\ lg[i].ok
          /\ lg[i].bucket = DataBucket
          /\ lg[i].key = basename(file)

SecondOfRun(r) == log[r][CHOOSE i \in EventsOf(r, "utcnow") : TRUE].second

SameSecondPut(r) ==
    \E q \in Runs \ {r} : \E i \in EventsOf(q, "upload_file") :
        /\ log[q][i].ok
        /\ log[q][i].key = basename(output_filename[r])
        /\ SecondOfRun(q) = SecondOfRun(r)

\* C1 as stated: a run that completes leaves exactly one NEW object in the
\* bucket, keyed by the artifact's base name, and no file at the artifact path.
C1_Original ==
    [][\A r \in Runs :
          /\ Uploads(r) =>
                /\ DOMAIN objects' = DOMAIN objects \cup {basename(output_filename[r])}
                /\ Cardinality(DOMAIN objects') = Cardinality(DOMAIN objects) + 1
          /\ Completes(r) =>
                /\ PutOnce(log'[r], output_filename'[r])
                /\ basename(output_filename'[r]) \in DOMAIN objects'
                /\ fkind'[output_filename'[r]] = "absent"]_vars

\* C1 amended: a run that completes has put exactly one object, keyed by the
\* artifact's base name, into the configured bucket, and at that moment no file
\* is left at the artifact path; the object is a new one unless another run with
\* a timestamp in the same second had already uploaded under that key.
C1_Theorem ==
    [][\A r \in Runs :
          /\ Uploads(r) =>
                /\ DOMAIN objects' = DOMAIN objects \cup {basename(output_filename[r])}
                /\ \/ Cardinality(DOMAIN objects') = Cardinality(DOMAIN objects) + 1
                   \/ SameSecondPut(r)
          /\ Completes(r) =>
                /\ PutOnce(log'[r], output_filename'[r])
                /\ basename(output_filename'[r]) \in DOMAIN objects'
                /\ fkind'[output_filename'[r]] = "absent"]_vars

C1_Witness ==
    \E r, q \in Runs :
        /\ r # q
        /\ pc[r] = "done" /\ pc[q] = "done"
        /\ Has(r, "remove")
        /\ output_filename[r] = output_filename[q]
        /\ Cardinality(DOMAIN objects) = 1

ConnectFailed(r) == \E i \in EventsOf(r, "connect") : ~log[r][i].ok

\* C2 as stated: when _check_connection fails the dump command is never run,
\* no dump file is created, no storage operation is attempted, and no effect of
\* dump_db on the filesystem precedes the check.
C2_Original ==
    \A r \in Runs : ConnectFailed(r) =>
        /\ pc[r] = "failed"
        /\ ~Has(r, "run_command")
        /\ NoStorageOp(r)
        /\ \A p \in Paths : fdata[p] # r
        /\ ~Has(r, "makedirs")

\* C2 amended: when _check_connection fails the run fails, the dump command is
\* never run, this run creates no dump file and attempts no storage operation;
\* every run of the dump command comes after a successful connectivity check.
\* Only the creation of the output directory may precede the check.
C2_Theorem ==
    \A r \in Runs :
        /\ ConnectFailed(r) =>
              /\ pc[r] = "failed"
              /\ ~Has(r, "run_command")
              /\ NoStorageOp(r)
              /\ \A p \in Paths : fdata[p] # r
        /\ \A i \in EventsOf(r, "run_command") :
              \E j \in EventsOf(r, "connect") : j < i /\ log[r][j].ok

C2_Witness ==
    \E r \in Runs : ConnectFailed(r) /\ Has(r, "makedirs") /\ pc[r] = "failed"

\* C3: a non-zero exit status of pg_dump or of gzip, or a non-empty stderr,
\* makes dump_db raise: no path is returned, the command is not run again and
\* the run reaches neither bucket setup nor upload.
C3_Claim ==
    \A r \in Runs : \A i \in EventsOf(r, "run_command") :
        DumpFailed(log[r][i]) =>
            /\ pc[r] = "failed"
            /\ output_filename[r] = NoFile
            /\ Cardinality(EventsOf(r, "run_command")) = 1
            /\ NoStorageOp(r)

\* C4: when the pipeline reports success (status 0, empty stderr) and no regular
\* file is at the output path, dump_db raises the check_file error for that
\* path, returns no path, and the run makes no storage operation.
C4_Theorem ==
    \A r \in Runs : \A i \in EventsOf(r, "check_file") :
        (/\ \E j \in EventsOf(r, "run_command") :
                j < i /\ pipeline_status(log[r][j].dump_rc, log[r][j].gzip_rc) = 0
                      /\ log[r][j].stderr = 0
         /\ ~log[r][i].ok)
        => /\ pc[r] = "failed"
           /\ err[r].type = "Exception"
           /\ err[r].msg \in {"does not exist", "is not a file"}
           /\ err[r].arg = output_file[r]
           /\ output_filename[r] = NoFile
           /\ NoStorageOp(r)

C4_Witness ==
    \E r \in Runs : \E i \in EventsOf(r, "check_file") :
        ~log[r][i].ok /\ pc[r] = "failed"

\* C5: when the path given to upload is not a regular file at that time, upload
\* raises an error that names the path, upload_file is never called, and the
\* run puts nothing into the bucket.
C5_Theorem ==
    \A r \in Runs : \A i \in EventsOf(r, "upload") :
        ~log[r][i].isfile =>
            /\ pc[r] = "failed"
            /\ err[r].type = "Exception"
            /\ err[r].msg \in {"does not exist", "is not a file"}
            /\ err[r].arg = log[r][i].file
            /\ ~Has(r, "upload_file")

C5_Witness ==
    \E r \in Runs : \E i \in EventsOf(r, "upload") :
        ~log[r][i].isfile /\ pc[r] = "failed"

\* C6: a run that succeeds leaves the target bucket in existence; a client
\* constructed while the bucket exists issues no create-bucket call and does not
\* fail in bucket setup; so a run whose client is constructed after another run
\* on the same bucket has succeeded never fails at its bucket check.
C6_Theorem ==
    \A r \in Runs :
        /\ pc[r] = "done" => DataBucket \in buckets
        /\ \A i \in EventsOf(r, "setup_bucket") :
              DataBucket \in registry[r] => ~log[r][i].create /\ ~log[r][i].raised
        /\ \A j \in EventsOf(r, "list_buckets") :
              (log[r][j].ok /\ log[r][j].after) =>
                  /\ DataBucket \in registry[r]
                  /\ \A i \in EventsOf(r, "setup_bucket") :
                        ~log[r][i].create /\ ~log[r][i].raised

C6_Witness ==
    \E r, q \in Runs :
        /\ pc[r] = "done" /\ pc[q] = "done"
        /\ \E i \in EventsOf(r, "setup_bucket") : log[r][i].create /\ ~log[r][i].existed
        /\ \E j \in EventsOf(q, "list_buckets") : log[q][j].after
        /\ \E i \in EventsOf(q, "setup_bucket") : ~log[q][i].create

\* C7 as stated: every setup_bucket call made while the bucket exists issues no
\* create-bucket request and raises no error, a repeated call on the same
\* client after it created the bucket included.
C7_Original ==
    \A r \in Runs : \A i \in EventsOf(r, "setup_bucket") :
        log[r][i].existed => ~log[r][i].create /\ ~log[r][i].raised

\* C7 amended: a setup_bucket call for a name in the client's cached bucket list
\* (the bucket existed when the client was constructed) issues no create-bucket
\* request and raises no error; a call for a name missing from the cached list
\* issues a create-bucket request whether or not the bucket exists by then.
C7_Theorem ==
    \A r \in Runs : \A i \in EventsOf(r, "setup_bucket") :
        /\ log[r][i].name \in registry[r] =>
              log[r][i].existed /\ ~log[r][i].create /\ ~log[r][i].raised
        /\ log[r][i].name \notin registry[r] => log[r][i].create

C7_Witness ==
    \E r \in Runs : \E i, j, k \in EventsOf(r, "setup_bucket") :
        /\ log[r][k].name \in registry[r]
        /\ i < j /\ log[r][i].name = log[r][j].name
        /\ log[r][i].create /\ ~log[r][i].raised
        /\ log[r][j].existed /\ log[r][j].create

\* C8: in every run the stages occur in the order dump, artifact check, bucket
\* setup, upload, delete, each at most once; upload gets the path dump_db
\* returned, the configured bucket and the path's base name as key; the delete
\* removes that path, after upload_file has returned.
C8_Theorem ==
    \A r \in Runs :
        /\ IsPrefix(Stages(r), Pipeline)
        /\ \A i \in EventsOf(r, "upload") :
              /\ log[r][i].file = output_filename[r]
              /\ \E j \in EventsOf(r, "run_command") : log[r][j].out = log[r][i].file
        /\ \A i \in EventsOf(r, "upload_file") :
              /\ log[r][i].file = output_filename[r]
              /\ log[r][i].bucket = DataBucket
              /\ log[r][i].key = basename(output_filename[r])
              /\ Cardinality(EventsOf(r, "upload_file")) = 1
        /\ \A i \in EventsOf(r, "remove") :
              /\ log[r][i].path = output_filename[r]
              /\ \E j \in EventsOf(r, "upload_file") : j < i /\ log[r][j].ok

C8_Witness ==
    \E r \in Runs : pc[r] = "done" /\ Stages(r) = Pipeline

EventFailed(e) ==
    CASE e.op = "connect" -> ~e.ok
      [] e.op = "run_command" -> DumpFailed(e)
      [] e.op = "check_file" -> ~e.ok
      [] e.op = "list_buckets" -> ~e.ok
      [] e.op = "setup_bucket" -> e.raised
      [] e.op = "upload" -> ~e.isfile
      [] e.op = "upload_file" -> ~e.ok
      [] OTHER -> FALSE

\* C9: a failure in any stage ends the run failed with no later stage executed;
\* a run succeeds only if every stage completed without error; the local file
\* is removed only after a successful upload.
C9_Claim ==
    \A r \in Runs :
        /\ \A i \in DOMAIN log[r] :
              EventFailed(log[r][i]) => pc[r] = "failed" /\ i = Len(log[r])
        /\ pc[r] = "done" => \A i \in DOMAIN log[r] : ~EventFailed(log[r][i])
        /\ pc[r] = "failed" => err[r] # NoErr
        /\ \A i \in EventsOf(r, "remove") :
              \E j \in EventsOf(r, "upload_file") : j < i /\ log[r][j].ok

\* no other invocation has read a timestamp in the second of invocation r
AloneInSecond(r) ==
    \A q \in Runs \ {r} : Has(q, "utcnow") => SecondOfRun(q) # SecondOfRun(r)

\* C10: two runs whose timestamps fall in different seconds have different
\* artifact paths and keys, and neither writes, uploads or removes the other's
\* file or object; a run that succeeds leaves an object under its key, holding
\* its own dump when no run shares its second; two runs share a path only when
\* their timestamps fall in the same second.
C10_Theorem ==
    \A r, q \in Runs :
        (r # q /\ Has(r, "utcnow") /\ Has(q, "utcnow")) =>
            /\ SecondOfRun(r) # SecondOfRun(q) =>
                  /\ output_file[r] # output_file[q]
                  /\ basename(output_file[r]) # basename(output_file[q])
                  /\ \A i \in EventsOf(r, "run_command") : log[r][i].out # output_file[q]
                  /\ \A i \in EventsOf(r, "remove") : log[r][i].path # output_file[q]
                  /\ \A i \in EventsOf(r, "upload_file") :
                        log[r][i].key # basename(output_file[q])
                  /\ pc[r] = "done" =>
                        /\ basename(output_file[r]) \in DOMAIN objects
                        /\ AloneInSecond(r) => objects[basename(output_file[r])] = r
            /\ output_file[r] = output_file[q] =>
                  SecondOfRun(r) = SecondOfRun(q)

C10_Witness ==
    \E r, q \in Runs :
        /\ pc[r] = "done" /\ pc[q] = "done"
        /\ SecondOfRun(r) # SecondOfRun(q)
        /\ objects[basename(output_file[r])] = r
        /\ objects[basename(output_file[q])] = q
====
